---------------------------- MODULE Spec2Model ----------------------------
(***************************************************************************)
(* Model of src/js/script.js: the browser-side controllers of the site     *)
(* (mobile menu, smooth scroll, lazy images, form validation, header       *)
(* scroll).  Each controller owns its own closure state and reacts to its  *)
(* own browser events, so each has its own specification over the shared   *)
(* variable list; the variables of the other controllers stay parked.      *)
(***************************************************************************)
EXTENDS Integers, Sequences, FiniteSets, TLC

VARIABLES
    \* ---- header-scroll controller (script.js 181-211)
    scrollY,        \* window.scrollY
    lastScroll,     \* let lastScroll
    ticking,        \* let ticking
    headerClasses,  \* elements.header.classList
    rafHeader,      \* header callbacks registered with requestAnimationFrame
    evalLog,        \* observation: the positions read by the latest evaluations
    scrollEvents,   \* observation: scroll events dispatched since the last frame
    frameEvals,     \* observation: evaluations run by the latest frame
    frameScrolls,   \* observation: scroll events that preceded the latest frame
    \* ---- mobile menu and smooth scroll (script.js 23-73)
    innerWidth,         \* window.innerWidth
    isMenuOpen,         \* let isMenuOpen
    navListClasses,     \* elements.navList.classList
    btnClasses,         \* mobileBtn.classList
    bodyOverflow,       \* document.body.style.overflow
    headerHeight,       \* const headerHeight, measured by setupSmoothScroll
    headerOffsetHeight, \* elements.header.offsetHeight now
    scrollRequest,      \* the latest window.scrollTo({top}): <<>> or <<top>>
    lastClick,          \* observation: the latest click event and its outcome
    \* ---- lazy-image controller (script.js 76-111)
    hasIO,          \* 'IntersectionObserver' in window
    imgParent,      \* img.parentElement, per image
    srcParent,      \* the parent element of each <source>
    imgSrc,         \* img.src, per image: <<>> or <<url>>
    imgDataSrc,     \* img.dataset.src, per image: <<>> or <<url>>
    imgClasses,     \* img.classList, per image
    srcSrcset,      \* source.srcset, per source: <<>> or <<set>>
    srcDataSrcset,  \* source.dataset.srcset, per source: <<>> or <<set>>
    observed,       \* the observer's targets, with the state last reported
    intersecting,   \* whether each image intersects the root now
    ioQueue,        \* the observer's queued entries
    loads,          \* observation: how often line 96 ran, per image
    handlerRuns,    \* observation: how often lines 83-101 ran, per image
    \* ---- form-validation controller (script.js 114-178)
    fieldType,      \* field.type, per field
    fieldMinLength, \* field.dataset.minLength, per field: <<>> or <<n>>
    fieldParent,    \* field.parentElement, per field
    fieldValue,     \* field.value, per field
    fieldClasses,   \* field.classList, per field
    errorMessages,  \* the .error-message spans of each parent, in tree order
    rafForm,        \* submit callbacks registered with requestAnimationFrame
    timer,          \* the debounce timer: <<>> or <<[target, remaining]>>
    frameLog,       \* observation: what each callback of the latest frame did
    callResult,     \* observation: the latest direct validateField call
    burst,          \* observation: the current burst of input events
    \* ---- bootstrap (script.js 6-11, 214-227)
    present,        \* which of .header, .nav, .nav__list, .contact__form exist
    readyState,     \* document.readyState when the script runs
    bootPc,         \* "script": not yet run, "waiting": listener registered, "done"
    active,         \* the controllers whose setup function completed
    uncaught        \* whether init ended in an uncaught TypeError

headerVars == <<scrollY, lastScroll, ticking, headerClasses, rafHeader,
                evalLog, scrollEvents, frameEvals, frameScrolls>>

menuVars == <<innerWidth, isMenuOpen, navListClasses, btnClasses, bodyOverflow,
              headerHeight, headerOffsetHeight, scrollRequest, lastClick>>

lazyVars == <<hasIO, imgParent, srcParent, imgSrc, imgDataSrc, imgClasses,
              srcSrcset, srcDataSrcset, observed, intersecting, ioQueue, loads,
              handlerRuns>>

formVars == <<fieldType, fieldMinLength, fieldParent, fieldValue, fieldClasses,
              errorMessages, rafForm, timer, frameLog, callResult, burst>>

bootVars == <<present, readyState, bootPc, active, uncaught>>

vars == <<headerVars, menuVars, lazyVars, formVars, bootVars>>

notHeader == <<menuVars, lazyVars, formVars, bootVars>>
notMenu   == <<headerVars, lazyVars, formVars, bootVars>>
notLazy   == <<headerVars, menuVars, formVars, bootVars>>
notForm   == <<headerVars, menuVars, lazyVars, bootVars>>
notBoot   == <<headerVars, menuVars, formVars, imgParent, srcParent, imgSrc,
               imgDataSrc, imgClasses, srcSrcset, srcDataSrcset, observed,
               intersecting, ioQueue, loads, handlerRuns>>

(***************************************************************************)
(* Bounds of the model.                                                    *)
(***************************************************************************)
MaxScrollEvents == 3    \* scroll events between two frames
EvalWindow      == 3    \* evaluations remembered in evalLog
NumImages       == 2    \* img[data-src] elements of the page
NumSources      == 2    \* <source> elements of the page
MaxQueue        == 3    \* entries the observer holds undelivered
MaxPending      == 2    \* submit events between two frames
MaxLen          == 6    \* length of the enumerated field values

(***************************************************************************)
(* Small helpers.                                                          *)
(***************************************************************************)
LastN(s, n) == IF Len(s) <= n THEN s ELSE SubSeq(s, Len(s) - n + 1, Len(s))

(***************************************************************************)
(* Header-scroll controller.                                               *)
(***************************************************************************)
HideThreshold     == 100
ScrolledThreshold == 50

\* Scroll positions the page can be at (negative: overscroll bounce).
ScrollPositions == {-20, 0, 50, 51, 100, 101, 150, 200}

\* classList.toggle(name, force)
ClassToggleForce(classes, name, force) ==
    IF force THEN classes \cup {name} ELSE classes \ {name}

\* The callback body with the reveal branch (line 199) lost.
HeaderEvalClassesNoReveal(c, l, classes) ==
    IF c <= 0
    THEN classes \ {"header--hidden", "header--scrolled"}
    ELSE LET shown == IF c > l /\ c > HideThreshold
                      THEN classes \cup {"header--hidden"}
                      ELSE classes
         IN  ClassToggleForce(shown, "header--scrolled", c > ScrolledThreshold)

\* The callback body with the hide test reduced to "scrolling down" (the
\* currentScroll > 100 conjunct of line 196 lost).
HeaderEvalClassesNoHideThreshold(c, l, classes) ==
    IF c <= 0
    THEN classes \ {"header--hidden", "header--scrolled"}
    ELSE LET shown == IF c > l
                      THEN classes \cup {"header--hidden"}
                      ELSE classes \ {"header--hidden"}
         IN  ClassToggleForce(shown, "header--scrolled", c > ScrolledThreshold)

\* The body of the animation-frame callback, lines 188-206: the new class
\* list for current position c and recorded position l.
HeaderEvalClasses(c, l, classes) ==
    IF c <= 0
    THEN classes \ {"header--hidden", "header--scrolled"}
    ELSE LET shown == IF c > l /\ c > HideThreshold
                      THEN classes \cup {"header--hidden"}
                      ELSE classes \ {"header--hidden"}
         IN  ClassToggleForce(shown, "header--scrolled", c > ScrolledThreshold)

\* The callback with the flag reset (line 206) lost.
HeaderCallbackKeepsTicking(st) ==
    [classes    |-> HeaderEvalClasses(scrollY, st.lastScroll, st.classes),
     lastScroll |-> scrollY,
     ticking    |-> st.ticking,
     log        |-> LastN(Append(st.log, scrollY), EvalWindow)]

\* One run of the callback on the controller state st.
HeaderCallback(st) ==
    [classes    |-> HeaderEvalClasses(scrollY, st.lastScroll, st.classes),
     lastScroll |-> scrollY,
     ticking    |-> FALSE,
     log        |-> LastN(Append(st.log, scrollY), EvalWindow)]

\* A frame runs every callback registered before it, in order.
RECURSIVE RunHeaderCallbacks(_, _)
RunHeaderCallbacks(n, st) ==
    IF n = 0 THEN st ELSE RunHeaderCallbacks(n - 1, HeaderCallback(st))

\* The scroll listener with the flag assignment (line 208) lost.
ScrollListenerMissesFlag ==
    [ticking |-> ticking,
     raf     |-> IF ~ticking THEN rafHeader + 1 ELSE rafHeader]

\* The scroll listener, lines 185-210: what it leaves in (ticking, rafHeader).
ScrollListener ==
    IF ~ticking
    THEN [ticking |-> TRUE, raf |-> rafHeader + 1]
    ELSE [ticking |-> ticking, raf |-> rafHeader]

\* The page scrolls to y and the scroll event is dispatched.
Scroll(y) ==
    /\ y # scrollY
    /\ scrollEvents < MaxScrollEvents
    /\ scrollY' = y
    /\ ticking' = ScrollListener.ticking
    /\ rafHeader' = ScrollListener.raf
    /\ scrollEvents' = scrollEvents + 1
    /\ UNCHANGED <<lastScroll, headerClasses, evalLog, frameEvals, frameScrolls>>
    /\ UNCHANGED notHeader

\* An animation frame: the registered header callbacks run.
HeaderFrame ==
    LET st == RunHeaderCallbacks(rafHeader,
                  [classes |-> headerClasses, lastScroll |-> lastScroll,
                   ticking |-> ticking, log |-> evalLog])
    IN  /\ headerClasses' = st.classes
        /\ lastScroll' = st.lastScroll
        /\ ticking' = st.ticking
        /\ evalLog' = st.log
        /\ frameEvals' = rafHeader
        /\ frameScrolls' = scrollEvents
        /\ rafHeader' = 0
        /\ scrollEvents' = 0
        /\ UNCHANGED scrollY
        /\ UNCHANGED notHeader

HeaderInit ==
    /\ scrollY = 0
    /\ lastScroll = 0
    /\ ticking = FALSE
    /\ headerClasses = {"header"}
    /\ rafHeader = 0
    /\ evalLog = <<>>
    /\ scrollEvents = 0
    /\ frameEvals = 0
    /\ frameScrolls = 0

HeaderNext ==
    \/ \E y \in ScrollPositions : Scroll(y)
    \/ HeaderFrame

(***************************************************************************)
(* Mobile menu controller and smooth-scroll controller.  A click on a nav  *)
(* link runs the link's own listener (smooth scroll) and then, bubbling,   *)
(* the delegated listener on the nav container.                            *)
(***************************************************************************)
MobileBreakpoint == 768

ViewportWidths == {320, 767, 768, 1024}
HeaderHeights  == {60, 80}

\* href attributes, as the leading character and the rest.
HrefAbout   == <<"#", "about">>
HrefMissing == <<"#", "missing">>
HrefBare    == <<"#">>
HrefPage    == <<"page.html">>
HrefContact == <<"#", "contact">>

\* The .nav__link anchors of the nav, and the .hero__cta anchor outside it.
NavLinkHrefs == {HrefAbout, HrefMissing, HrefBare, HrefPage}
CtaHrefs     == {HrefContact, HrefMissing}

\* Elements with an id, and their offsetTop.
TargetIds == {"about", "contact"}
TargetOffsetTop(id) == IF id = "about" THEN 600 ELSE 1200

\* String.prototype.startsWith('#')
StartsWithHash(href) == Len(href) >= 1 /\ href[1] = "#"

MenuState ==
    [isMenuOpen |-> isMenuOpen, navList |-> navListClasses,
     btn |-> btnClasses, overflow |-> bodyOverflow]

\* classList.toggle(name)
ClassToggle(classes, name) ==
    IF name \in classes THEN classes \ {name} ELSE classes \cup {name}

\* The toggle branch with the isMenuOpen flip (line 38) lost.
MenuToggleKeepsFlag(m) ==
    [isMenuOpen |-> m.isMenuOpen,
     navList    |-> ClassToggle(m.navList, "nav__list--active"),
     btn        |-> ClassToggle(m.btn, "nav__mobile-btn--active"),
     overflow   |-> IF m.isMenuOpen THEN "hidden" ELSE ""]

\* The toggle branch, lines 38-42.
MenuToggle(m) ==
    [isMenuOpen |-> ~m.isMenuOpen,
     navList    |-> ClassToggle(m.navList, "nav__list--active"),
     btn        |-> ClassToggle(m.btn, "nav__mobile-btn--active"),
     overflow   |-> IF ~m.isMenuOpen THEN "hidden" ELSE ""]

\* The close branch with the overflow reset (line 46) lost.
MenuCloseKeepsLock(m) ==
    [isMenuOpen |-> FALSE,
     navList    |-> m.navList \ {"nav__list--active"},
     btn        |-> m.btn \ {"nav__mobile-btn--active"},
     overflow   |-> m.overflow]

\* The close branch, lines 44-47.
MenuClose(m) ==
    [isMenuOpen |-> FALSE,
     navList    |-> m.navList \ {"nav__list--active"},
     btn        |-> m.btn \ {"nav__mobile-btn--active"},
     overflow   |-> ""]

\* The width test written with <= instead of <.
IsNarrowViewportInclusive == innerWidth <= MobileBreakpoint

\* window.innerWidth < 768, line 43.
IsNarrowViewport == innerWidth < MobileBreakpoint

\* The delegated click listener of the nav, lines 34-49, for a click whose
\* closest('.nav__mobile-btn, .nav__link') is of the given kind.
NavClickListener(kind, m) ==
    IF kind = "none" THEN m
    ELSE IF kind = "btn" THEN MenuToggle(m)
    ELSE IF kind = "navlink" /\ IsNarrowViewport THEN MenuClose(m)
    ELSE m

\* The click listener of a link, lines 58-71: whether the default is
\* prevented, the latest scroll request afterwards, the window.scrollTo call
\* it made (if any), whether document.querySelector threw (a bare "#" is not
\* a valid selector).
LinkClickListener(href) ==
    IF ~StartsWithHash(href)
    THEN [prevented |-> FALSE, request |-> scrollRequest, scrolledTo |-> <<>>,
          threw |-> FALSE]
    ELSE IF Len(href) = 1
    THEN [prevented |-> TRUE, request |-> scrollRequest, scrolledTo |-> <<>>,
          threw |-> TRUE]
    ELSE IF href[2] \in TargetIds
    THEN [prevented  |-> TRUE,
          request    |-> <<TargetOffsetTop(href[2]) - headerHeight>>,
          scrolledTo |-> <<TargetOffsetTop(href[2]) - headerHeight>>,
          threw      |-> FALSE]
    ELSE [prevented |-> TRUE, request |-> scrollRequest, scrolledTo |-> <<>>,
          threw |-> FALSE]

SetMenu(m) ==
    /\ isMenuOpen' = m.isMenuOpen
    /\ navListClasses' = m.navList
    /\ btnClasses' = m.btn
    /\ bodyOverflow' = m.overflow

NoClick ==
    [kind |-> "none", href |-> <<>>, width |-> 0, before |-> MenuState,
     prevented |-> FALSE, scrolledTo |-> <<>>, threw |-> FALSE]

\* A click on the toggle button (or one of its spans).
ClickMobileBtn ==
    /\ SetMenu(NavClickListener("btn", MenuState))
    /\ lastClick' = [NoClick EXCEPT !.kind = "btn", !.width = innerWidth]
    /\ UNCHANGED <<innerWidth, headerHeight, headerOffsetHeight, scrollRequest>>
    /\ UNCHANGED notMenu

\* A click on a .nav__link of the nav.
ClickNavLink(href) ==
    LET r == LinkClickListener(href)
    IN  /\ scrollRequest' = r.request
        /\ SetMenu(NavClickListener("navlink", MenuState))
        /\ lastClick' = [kind |-> "navlink", href |-> href, width |-> innerWidth,
                         before |-> MenuState, prevented |-> r.prevented,
                         scrolledTo |-> r.scrolledTo, threw |-> r.threw]
        /\ UNCHANGED <<innerWidth, headerHeight, headerOffsetHeight>>
        /\ UNCHANGED notMenu

\* A click on the .hero__cta, outside the nav.
ClickHeroCta(href) ==
    LET r == LinkClickListener(href)
    IN  /\ scrollRequest' = r.request
        /\ lastClick' = [kind |-> "cta", href |-> href, width |-> innerWidth,
                         before |-> MenuState, prevented |-> r.prevented,
                         scrolledTo |-> r.scrolledTo, threw |-> r.threw]
        /\ UNCHANGED <<innerWidth, isMenuOpen, navListClasses, btnClasses,
                       bodyOverflow, headerHeight, headerOffsetHeight>>
        /\ UNCHANGED notMenu

\* A click inside the nav on neither the button nor a link.
ClickNavOther ==
    /\ lastClick.kind # "other"
    /\ SetMenu(NavClickListener("none", MenuState))
    /\ lastClick' = [NoClick EXCEPT !.kind = "other", !.width = innerWidth]
    /\ UNCHANGED <<innerWidth, headerHeight, headerOffsetHeight, scrollRequest>>
    /\ UNCHANGED notMenu

\* The window is resized; the header may reflow to another height.
Resize(w, h) ==
    /\ <<w, h>> # <<innerWidth, headerOffsetHeight>>
    /\ innerWidth' = w
    /\ headerOffsetHeight' = h
    /\ UNCHANGED <<isMenuOpen, navListClasses, btnClasses, bodyOverflow,
                   headerHeight, scrollRequest, lastClick>>
    /\ UNCHANGED notMenu

\* After setupMobileMenu and setupSmoothScroll: the button is fresh, the menu
\* closed, the header height measured.
MenuInit ==
    /\ innerWidth \in ViewportWidths
    /\ isMenuOpen = FALSE
    /\ navListClasses = {"nav__list"}
    /\ btnClasses = {"nav__mobile-btn"}
    /\ bodyOverflow = ""
    /\ headerOffsetHeight \in HeaderHeights
    /\ headerHeight = headerOffsetHeight
    /\ scrollRequest = <<>>
    /\ lastClick = [kind |-> "none", href |-> <<>>, width |-> 0,
                    before |-> [isMenuOpen |-> FALSE, navList |-> {"nav__list"},
                                btn |-> {"nav__mobile-btn"}, overflow |-> ""],
                    prevented |-> FALSE, scrolledTo |-> <<>>, threw |-> FALSE]

MenuParked ==
    /\ innerWidth = 1024
    /\ isMenuOpen = FALSE
    /\ navListClasses = {"nav__list"}
    /\ btnClasses = {"nav__mobile-btn"}
    /\ bodyOverflow = ""
    /\ headerOffsetHeight = 60
    /\ headerHeight = 60
    /\ scrollRequest = <<>>
    /\ lastClick = [kind |-> "none", href |-> <<>>, width |-> 0,
                    before |-> [isMenuOpen |-> FALSE, navList |-> {"nav__list"},
                                btn |-> {"nav__mobile-btn"}, overflow |-> ""],
                    prevented |-> FALSE, scrolledTo |-> <<>>, threw |-> FALSE]

MenuNext ==
    \/ ClickMobileBtn
    \/ \E href \in NavLinkHrefs : ClickNavLink(href)
    \/ \E href \in CtaHrefs : ClickHeroCta(href)
    \/ ClickNavOther
    \/ \E w \in ViewportWidths, h \in HeaderHeights : Resize(w, h)

(***************************************************************************)
(* Lazy-image controller.  The observer queues an entry for a target when  *)
(* the target is first observed and whenever its intersection state has    *)
(* changed at an update; the callback later receives every queued entry.   *)
(* Every img[data-src] carries a non-empty URL.                            *)
(***************************************************************************)
Images  == 1 .. NumImages
Sources == 1 .. NumSources
Parents == {"p1", "p2"}

ImgUrl(i)    == <<"img", i>>
SourceSet(s) == <<"set", s>>

\* The markup: every image is img[data-src] without src; the first source
\* waits with data-srcset, the others carry their srcset already.
MarkupImgSrc        == [i \in Images |-> <<>>]
MarkupImgDataSrc    == [i \in Images |-> <<ImgUrl(i)>>]
MarkupImgClasses    == [i \in Images |-> {}]
MarkupSrcSrcset     == [s \in Sources |-> IF s = 1 THEN <<>> ELSE <<SourceSet(s)>>]
MarkupSrcDataSrcset == [s \in Sources |-> IF s = 1 THEN <<SourceSet(s)>> ELSE <<>>]

\* setupLazyLoading with the capability guard (line 77) lost.
SetupLazyLoadingUnguarded == [i \in Images |-> "new"]

\* setupLazyLoading, lines 76-111: the targets it leaves observed.  An
\* image outside the domain is not observed.
SetupLazyLoading ==
    IF ~hasIO THEN << >> ELSE [i \in Images |-> "new"]

IsObserved(obs, i) == i \in DOMAIN obs

Unobserve(obs, i) == [j \in (DOMAIN obs) \ {i} |-> obs[j]]

\* The load of the sources of parent p, lines 87-92.
LoadSources(dom, p) ==
    [dom EXCEPT
       !.srcSrcset = [s \in Sources |->
            IF srcParent[s] = p /\ dom.srcDataSrcset[s] # <<>>
            THEN dom.srcDataSrcset[s] ELSE @[s]],
       !.srcDataSrcset = [s \in Sources |->
            IF srcParent[s] = p THEN <<>> ELSE @[s]]]

\* The handler with the unobserve call (line 101) lost.
HandleEntryStaysObserved(dom, entry) ==
    IF ~entry.isIntersecting THEN dom
    ELSE LET img == entry.target
             d1  == LoadSources(dom, imgParent[img])
         IN  [d1 EXCEPT
                !.imgSrc[img] = IF d1.imgDataSrc[img] # <<>>
                                THEN d1.imgDataSrc[img] ELSE @,
                !.loads[img] = IF d1.imgDataSrc[img] # <<>> THEN @ + 1 ELSE @,
                !.handlerRuns[img] = @ + 1,
                !.imgDataSrc[img] = <<>>,
                !.imgClasses[img] = @ \cup {"loaded"}]

\* The handler with the isIntersecting test (line 81) lost.
HandleEntryIgnoresGuard(dom, entry) ==
    LET img == entry.target
        d1  == LoadSources(dom, imgParent[img])
    IN  [d1 EXCEPT
           !.imgSrc[img] = IF d1.imgDataSrc[img] # <<>>
                           THEN d1.imgDataSrc[img] ELSE @,
           !.loads[img] = IF d1.imgDataSrc[img] # <<>> THEN @ + 1 ELSE @,
           !.handlerRuns[img] = @ + 1,
           !.imgDataSrc[img] = <<>>,
           !.imgClasses[img] = @ \cup {"loaded"},
           !.observed = Unobserve(@, img)]

\* The handler of one entry, lines 81-101, on the document state dom.
HandleEntry(dom, entry) ==
    IF ~entry.isIntersecting THEN dom
    ELSE LET img == entry.target
             d1  == LoadSources(dom, imgParent[img])
         IN  [d1 EXCEPT
                !.imgSrc[img] = IF d1.imgDataSrc[img] # <<>>
                                THEN d1.imgDataSrc[img] ELSE @,
                !.loads[img] = IF d1.imgDataSrc[img] # <<>> THEN @ + 1 ELSE @,
                !.handlerRuns[img] = @ + 1,
                !.imgDataSrc[img] = <<>>,
                !.imgClasses[img] = @ \cup {"loaded"},
                !.observed = Unobserve(@, img)]

\* entries.forEach, line 80.
RECURSIVE HandleEntries(_, _)
HandleEntries(dom, entries) ==
    IF entries = <<>> THEN dom
    ELSE HandleEntries(HandleEntry(dom, Head(entries)), Tail(entries))

LazyDom ==
    [imgSrc |-> imgSrc, imgDataSrc |-> imgDataSrc, imgClasses |-> imgClasses,
     srcSrcset |-> srcSrcset, srcDataSrcset |-> srcDataSrcset,
     observed |-> observed, loads |-> loads, handlerRuns |-> handlerRuns]

\* The image enters or leaves the root's (margin-extended) area.
ViewportChange(i) ==
    /\ intersecting' = [intersecting EXCEPT ![i] = ~@]
    /\ UNCHANGED <<hasIO, imgParent, srcParent, imgSrc, imgDataSrc, imgClasses,
                   srcSrcset, srcDataSrcset, observed, ioQueue, loads, handlerRuns>>
    /\ UNCHANGED notLazy

StateName(b) == IF b THEN "in" ELSE "out"

\* The observed targets whose state differs from the one last reported.
ChangedTargets ==
    {i \in DOMAIN observed : observed[i] # StateName(intersecting[i])}

RECURSIVE EntriesFor(_)
EntriesFor(targets) ==
    IF targets = {} THEN <<>>
    ELSE LET i == CHOOSE m \in targets : \A n \in targets : m <= n
         IN  <<[target |-> i, isIntersecting |-> intersecting[i]]>>
             \o EntriesFor(targets \ {i})

\* The browser's update of the intersection observations: an entry is queued
\* for every changed target.
ObserveUpdate ==
    /\ ChangedTargets # {}
    /\ Len(ioQueue) + Cardinality(ChangedTargets) <= MaxQueue
    /\ ioQueue' = ioQueue \o EntriesFor(ChangedTargets)
    /\ observed' = [i \in DOMAIN observed |-> StateName(intersecting[i])]
    /\ UNCHANGED <<hasIO, imgParent, srcParent, imgSrc, imgDataSrc, imgClasses,
                   srcSrcset, srcDataSrcset, intersecting, loads, handlerRuns>>
    /\ UNCHANGED notLazy

\* The observer's callback runs with every queued entry, lines 79-103.
DeliverEntries ==
    /\ ioQueue # <<>>
    /\ LET dom == HandleEntries(LazyDom, ioQueue)
       IN  /\ imgSrc' = dom.imgSrc
           /\ imgDataSrc' = dom.imgDataSrc
           /\ imgClasses' = dom.imgClasses
           /\ srcSrcset' = dom.srcSrcset
           /\ srcDataSrcset' = dom.srcDataSrcset
           /\ observed' = dom.observed
           /\ loads' = dom.loads
           /\ handlerRuns' = dom.handlerRuns
    /\ ioQueue' = <<>>
    /\ UNCHANGED <<hasIO, imgParent, srcParent, intersecting>>
    /\ UNCHANGED notLazy

LazyMarkup ==
    /\ imgSrc = MarkupImgSrc
    /\ imgDataSrc = MarkupImgDataSrc
    /\ imgClasses = MarkupImgClasses
    /\ srcSrcset = MarkupSrcSrcset
    /\ srcDataSrcset = MarkupSrcDataSrcset
    /\ ioQueue = <<>>
    /\ loads = [i \in Images |-> 0]
    /\ handlerRuns = [i \in Images |-> 0]

\* After setupLazyLoading, for every page layout and either kind of browser.
\* An image in view at load time is one that enters before the first update.
LazyInit ==
    /\ hasIO \in BOOLEAN
    /\ imgParent \in [Images -> Parents]
    /\ srcParent \in [Sources -> Parents]
    /\ intersecting = [i \in Images |-> FALSE]
    /\ LazyMarkup
    /\ observed = SetupLazyLoading

LazyParked ==
    /\ hasIO = TRUE
    /\ imgParent = [i \in Images |-> "p1"]
    /\ srcParent = [s \in Sources |-> "p1"]
    /\ intersecting = [i \in Images |-> FALSE]
    /\ LazyMarkup
    /\ observed = SetupLazyLoading

LazyNext ==
    \/ \E i \in Images : ViewportChange(i)
    \/ ObserveUpdate
    \/ DeliverEntries

(***************************************************************************)
(* Form-validation controller.  Strings are sequences of characters.       *)
(***************************************************************************)
DebounceDelay == 300

Whitespace == {" ", "\t", "\n"}

\* String.prototype.trim
RECURSIVE TrimStart(_)
TrimStart(v) ==
    IF v # <<>> /\ Head(v) \in Whitespace THEN TrimStart(Tail(v)) ELSE v

RECURSIVE TrimEnd(_)
TrimEnd(v) ==
    IF v # <<>> /\ v[Len(v)] \in Whitespace
    THEN TrimEnd(SubSeq(v, 1, Len(v) - 1)) ELSE v

Trim(v) == TrimEnd(TrimStart(v))

\* /^[^\s@]+@[^\s@]+\.[^\s@]+$/ as its automaton: 0 start, 1 in the local
\* part, 2 after '@', 3 in the domain, 4 after the dot, 5 in the last label.
EmailStep(q, c) ==
    LET plain == c \notin Whitespace /\ c # "@"
    IN  IF q = 0 THEN (IF plain THEN {1} ELSE {})
        ELSE IF q = 1 THEN (IF plain THEN {1} ELSE IF c = "@" THEN {2} ELSE {})
        ELSE IF q = 2 THEN (IF plain THEN {3} ELSE {})
        ELSE IF q = 3 THEN (IF c = "." THEN {3, 4} ELSE IF plain THEN {3} ELSE {})
        ELSE IF plain THEN {5} ELSE {}

RECURSIVE EmailRun(_, _)
EmailRun(states, v) ==
    IF v = <<>> THEN states
    ELSE EmailRun(UNION {EmailStep(q, Head(v)) : q \in states}, Tail(v))

\* The pattern with the anchors lost: a match anywhere in the value.
EmailRegexTestUnanchored(v) ==
    \E i \in 1 .. Len(v) : \E j \in i .. Len(v) :
        5 \in EmailRun({0}, SubSeq(v, i, j))

\* RegExp.prototype.test of the pattern of line 133
EmailRegexTest(v) == 5 \in EmailRun({0}, v)

\* field.dataset.minLength || 0, line 120
MinLengthOf(f) ==
    IF fieldMinLength[f] = <<>> THEN 0 ELSE fieldMinLength[f][1]

EmailMessage == <<"Please enter a valid email">>
MinLengthMessage(n) == <<"Minimum ", n, " characters required">>

\* The rule with > written for >= (line 137).
FieldRuleStrict(f, trimmed) ==
    IF fieldType[f] = "email"
    THEN [isValid |-> EmailRegexTest(trimmed), errorMessage |-> EmailMessage]
    ELSE [isValid |-> Len(trimmed) > MinLengthOf(f),
          errorMessage |-> MinLengthMessage(MinLengthOf(f))]

\* The rule of lines 128-139 on the trimmed value: validity and error text.
FieldRule(f, trimmed) ==
    IF fieldType[f] = "email"
    THEN [isValid |-> EmailRegexTest(trimmed), errorMessage |-> EmailMessage]
    ELSE [isValid |-> Len(trimmed) >= MinLengthOf(f),
          errorMessage |-> MinLengthMessage(MinLengthOf(f))]

FormDom == [classes |-> fieldClasses, messages |-> errorMessages]

\* validateField, lines 117-150, on the document state dom: the new document
\* state and the returned validity.
ValidateField(dom, f) ==
    LET p       == fieldParent[f]
        rule    == FieldRule(f, Trim(fieldValue[f]))
        cleared == [classes  |-> [dom.classes EXCEPT ![f] = @ \ {"error"}],
                    messages |-> [dom.messages EXCEPT ![p] =
                                     IF @ = <<>> THEN @ ELSE Tail(@)]]
    IN  [isValid |-> rule.isValid,
         dom     |-> IF rule.isValid THEN cleared
                     ELSE [classes  |-> [cleared.classes EXCEPT
                                            ![f] = @ \cup {"error"}],
                           messages |-> [cleared.messages EXCEPT
                                            ![p] = Append(@, rule.errorMessage)]]]

\* The inputs and textareas of the form, in tree order, and their names.
Fields == {1, 2}
FieldName(f) == IF f = 1 THEN "message" ELSE "email"
FormRows == {"row1", "row2"}
\* An element of the form that fires input events and is neither.
SelectElement == 0

\* new FormData(form): the entries of the named fields, in tree order.
RECURSIVE FormDataEntries(_, _)
FormDataEntries(values, f) ==
    IF f \notin Fields THEN <<>>
    ELSE <<(<<FieldName(f), values[f]>>)>> \o FormDataEntries(values, f + 1)

\* Object.fromEntries: the last entry of a key wins.
ObjectFromEntries(entries) ==
    [k \in {entries[n][1] : n \in 1 .. Len(entries)} |->
        LET last == CHOOSE n \in 1 .. Len(entries) :
                       /\ entries[n][1] = k
                       /\ \A m \in n + 1 .. Len(entries) : entries[m][1] # k
        IN  entries[last][2]]

\* fields.forEach of lines 162-164 from field f on: every field is
\* validated, the flag only ever cleared.
RECURSIVE ValidateAll(_, _, _)
ValidateAll(dom, f, isValid) ==
    IF f \notin Fields
    THEN [dom |-> dom, isValid |-> isValid, validated |-> <<>>]
    ELSE LET r    == ValidateField(dom, f)
             rest == ValidateAll(r.dom, f + 1, isValid /\ r.isValid)
         IN  [rest EXCEPT !.validated = <<f>> \o @]

\* The calls a callback makes, in order.
CallTrace(validated, submits) ==
    [k \in 1 .. Len(validated) |-> <<"validateField", validated[k]>>]
    \o [k \in 1 .. Len(submits) |-> <<"submitForm", 0>>]

\* The callback calling submitForm first and validating afterwards.
SubmitCallbackSubmitsFirst(dom, closure) ==
    LET r == ValidateAll(dom, 1, TRUE)
    IN  [dom |-> r.dom,
         log |-> [read  |-> fieldValue,
                  ok    |-> r.isValid,
                  calls |-> <<ObjectFromEntries(closure.formData)>>,
                  prevented |-> closure.prevented,
                  trace |-> <<(<<"submitForm", 0>>)>>
                            \o CallTrace(r.validated, <<>>)]]

\* The animation-frame callback of one submit, lines 161-169: closure holds
\* the FormData taken by the submit handler.
SubmitCallback(dom, closure) ==
    LET r == ValidateAll(dom, 1, TRUE)
    IN  [dom |-> r.dom,
         log |-> [read  |-> fieldValue,
                  ok    |-> r.isValid,
                  calls |-> IF r.isValid
                            THEN <<ObjectFromEntries(closure.formData)>>
                            ELSE <<>>,
                  prevented |-> closure.prevented,
                  trace |-> CallTrace(r.validated,
                                      IF r.isValid THEN <<0>> ELSE <<>>)]]

RECURSIVE RunSubmitCallbacks(_, _, _)
RunSubmitCallbacks(dom, queue, log) ==
    IF queue = <<>> THEN [dom |-> dom, log |-> log]
    ELSE LET r == SubmitCallback(dom, Head(queue))
         IN  RunSubmitCallbacks(r.dom, Tail(queue), Append(log, r.log))

\* No burst: the last input event is a full delay or more in the past.
NoBurst ==
    [prev |-> <<>>, last |-> SelectElement, elapsed |-> DebounceDelay,
     live |-> <<>>]

\* The submit listener, lines 153-170: the closure it registers, with the
\* event's defaultPrevented as the listener leaves it (line 154).
SubmitListener ==
    [formData |-> FormDataEntries(fieldValue, 1), prevented |-> TRUE]

\* A submit event on the form.
Submit ==
    /\ Len(rafForm) < MaxPending
    /\ rafForm' = Append(rafForm, SubmitListener)
    /\ frameLog' = <<>>
    /\ UNCHANGED <<fieldType, fieldMinLength, fieldParent, fieldValue,
                   fieldClasses, errorMessages, timer, callResult, burst>>
    /\ UNCHANGED notForm

\* The debounced listener with the clearTimeout call (line 17) lost: the
\* pending timers stay armed.
DebouncedInputKeepsPending(target) ==
    Append(timer, [target |-> target, remaining |-> DebounceDelay])

\* The debounced input listener, lines 14-20 and 173: the pending timer is
\* cleared and a new one armed for the event's target.
DebouncedInput(target) == <<[target |-> target, remaining |-> DebounceDelay]>>

\* The listener re-validating the whole form instead of the target.
LiveListenerWholeForm(dom, target) ==
    IF target \in Fields
    THEN LET r == ValidateAll(dom, 1, TRUE)
         IN  [dom |-> r.dom, validated |-> r.validated]
    ELSE [dom |-> dom, validated |-> <<>>]

\* The listener the timer calls, lines 173-177, for an event on target.
LiveListener(dom, target) ==
    IF target \in Fields
    THEN [dom |-> ValidateField(dom, target).dom, validated |-> <<target>>]
    ELSE [dom |-> dom, validated |-> <<>>]

\* The timers that run out, in the order they were armed.
RECURSIVE RunTimers(_, _)
RunTimers(dom, expired) ==
    IF expired = <<>> THEN [dom |-> dom, validated |-> <<>>]
    ELSE LET r    == LiveListener(dom, Head(expired).target)
             rest == RunTimers(r.dom, Tail(expired))
         IN  [dom |-> rest.dom, validated |-> r.validated \o rest.validated]

\* The burst after an input event on target: an event that comes a full
\* delay or more after the previous one starts a new burst; otherwise the
\* previous event's target is remembered.
BurstInput(target) ==
    IF burst.elapsed >= DebounceDelay
    THEN [prev |-> <<>>, last |-> target, elapsed |-> 0, live |-> <<>>]
    ELSE [prev |-> <<burst.last>>, last |-> target, elapsed |-> 0,
          live |-> burst.live]

\* The user edits field f to v; the input event bubbles to the form.
InputEvent(f, v) ==
    /\ v # fieldValue[f]
    /\ fieldValue' = [fieldValue EXCEPT ![f] = v]
    /\ timer' = DebouncedInput(f)
    /\ burst' = BurstInput(f)
    /\ frameLog' = <<>>
    /\ UNCHANGED <<fieldType, fieldMinLength, fieldParent, fieldClasses,
                   errorMessages, rafForm, callResult>>
    /\ UNCHANGED notForm

\* An input event whose target is neither an input nor a textarea.
InputOnSelect ==
    /\ timer' = DebouncedInput(SelectElement)
    /\ timer' # timer
    /\ burst' = BurstInput(SelectElement)
    /\ frameLog' = <<>>
    /\ UNCHANGED <<fieldType, fieldMinLength, fieldParent, fieldValue,
                   fieldClasses, errorMessages, rafForm, callResult>>
    /\ UNCHANGED notForm

TickMs == DebounceDelay \div 3

SetFormDom(dom) ==
    /\ fieldClasses' = dom.classes
    /\ errorMessages' = dom.messages

\* Time passes; a timer that runs out calls the listener of lines 173-177.
Tick ==
    /\ timer # <<>>
    /\ LET expired == SelectSeq(timer, LAMBDA t : t.remaining <= TickMs)
           kept    == SelectSeq(timer, LAMBDA t : t.remaining > TickMs)
           r       == RunTimers(FormDom, expired)
           now     == IF burst.elapsed + TickMs < DebounceDelay
                      THEN burst.elapsed + TickMs ELSE DebounceDelay
       IN  /\ timer' = IF kept = <<>> THEN <<>>
                        ELSE [k \in 1 .. Len(kept) |->
                                [kept[k] EXCEPT !.remaining = @ - TickMs]]
           /\ SetFormDom(r.dom)
           /\ burst' = [burst EXCEPT
                           !.elapsed = now,
                           !.live = @ \o [k \in 1 .. Len(r.validated) |->
                                            [field |-> r.validated[k],
                                             after |-> now]]]
    /\ frameLog' = <<>>
    /\ UNCHANGED <<fieldType, fieldMinLength, fieldParent, fieldValue, rafForm,
                   callResult>>
    /\ UNCHANGED notForm

\* An animation frame: the registered submit callbacks run, in order.
FormFrame ==
    /\ rafForm # <<>>
    /\ LET r == RunSubmitCallbacks(FormDom, rafForm, <<>>)
       IN  /\ SetFormDom(r.dom)
           /\ frameLog' = r.log
    /\ rafForm' = <<>>
    /\ UNCHANGED <<fieldType, fieldMinLength, fieldParent, fieldValue, timer,
                   callResult, burst>>
    /\ UNCHANGED notForm

\* validateField called on field f.
ValidateCall(f) ==
    /\ LET r == ValidateField(FormDom, f)
       IN  /\ SetFormDom(r.dom)
           /\ callResult' = [field |-> f, value |-> fieldValue[f],
                                 isValid |-> r.isValid]
    /\ UNCHANGED <<fieldType, fieldMinLength, fieldParent, fieldValue,
                   rafForm, timer, frameLog, burst>>
    /\ UNCHANGED notForm

\* Field values.
Str_abcd   == <<"a", "b", "c", "d">>
Str_abcde  == <<"a", "b", "c", "d", "e">>
Str_a_b_co == <<"a", "@", "b", ".", "c", "o">>
Str_not_an_email ==
    <<"n", "o", "t", "-", "a", "n", "-", "e", "m", "a", "i", "l">>

\* In the form: a value too short for every rule, and one that passes all.
FormValues == {Str_abcd, Str_a_b_co}

ProbeAlphabet == {"a", "@", ".", " "}
ProbeValues ==
    UNION {[1 .. n -> ProbeAlphabet] : n \in 0 .. MaxLen}
    \cup {Str_abcd, Str_abcde, Str_a_b_co, Str_not_an_email,
          <<" ">> \o Str_abcd \o <<"\n">>, <<"\t">> \o Str_a_b_co \o <<" ">>}

FieldTypes == {"text", "textarea", "email"}
MinLengthAttrs == {<<>>, <<0>>, <<3>>, <<5>>}

FormClean ==
    /\ fieldClasses = [f \in Fields |-> {}]
    /\ errorMessages = [p \in FormRows |-> <<>>]
    /\ rafForm = <<>>
    /\ timer = <<>>
    /\ frameLog = <<>>
    /\ callResult = [field |-> 0, value |-> <<>>, isValid |-> TRUE]
    /\ burst = NoBurst

\* The contact form: a message field of at least 5 characters and an email
\* field, in one row or in two.
FormInit ==
    /\ fieldType = [f \in Fields |-> IF f = 1 THEN "textarea" ELSE "email"]
    /\ fieldMinLength = [f \in Fields |-> IF f = 1 THEN <<5>> ELSE <<>>]
    /\ fieldParent \in {[f \in Fields |-> "row1"],
                        [f \in Fields |-> IF f = 1 THEN "row1" ELSE "row2"]}
    /\ fieldValue \in [Fields -> FormValues]
    /\ FormClean

FormParked ==
    /\ fieldType = [f \in Fields |-> IF f = 1 THEN "textarea" ELSE "email"]
    /\ fieldMinLength = [f \in Fields |-> IF f = 1 THEN <<5>> ELSE <<>>]
    /\ fieldParent = [f \in Fields |-> IF f = 1 THEN "row1" ELSE "row2"]
    /\ fieldValue = [f \in Fields |-> Str_abcd]
    /\ FormClean

\* Any first field, for the calls of validateField on their own.
ValidateInit ==
    /\ fieldType \in {[f \in Fields |-> IF f = 1 THEN t ELSE "email"] :
                        t \in FieldTypes}
    /\ fieldMinLength \in {[f \in Fields |-> IF f = 1 THEN m ELSE <<>>] :
                             m \in MinLengthAttrs}
    /\ fieldParent = [f \in Fields |-> IF f = 1 THEN "row1" ELSE "row2"]
    /\ fieldValue \in {[f \in Fields |-> IF f = 1 THEN v ELSE Str_a_b_co] :
                         v \in ProbeValues}
    /\ FormClean

FormNext ==
    \/ Submit
    \/ \E f \in Fields, v \in FormValues : InputEvent(f, v)
    \/ InputOnSelect
    \/ Tick
    \/ FormFrame

\* The calls are made on the first field, the one ValidateInit varies.
ValidateNext == \E f \in {1} : ValidateCall(f)

(***************************************************************************)
(* Bootstrap: the element cache, init and the DOM-ready check.  init runs  *)
(* the five setup functions in order; a TypeError thrown by one of them    *)
(* ends init, and the later ones never run.                                *)
(***************************************************************************)
PageElements == {"header", "nav", "navList", "form"}

\* The setup functions, in the order init calls them (lines 215-219).
SetupOrder == <<"mobileMenu", "smoothScroll", "lazyLoading", "formValidation",
                "headerScroll">>

\* Whether the setup function throws where it dereferences a cached element
\* that document.querySelector returned null for: elements.nav at line 29,
\* elements.header at line 55.  The others dereference nothing at setup.
SetupThrows(name) ==
    \/ name = "mobileMenu" /\ "nav" \notin present
    \/ name = "smoothScroll" /\ "header" \notin present

\* Whether the setup function, returning normally, has wired its controller:
\* setupLazyLoading returns early without the capability (line 77),
\* setupFormValidation without the form (line 115).
SetupWires(name) ==
    /\ name = "lazyLoading" => hasIO
    /\ name = "formValidation" => "form" \in present

\* init, lines 214-220, from its k-th call on.
RECURSIVE RunInit(_, _)
RunInit(k, done) ==
    IF k > Len(SetupOrder) THEN [active |-> done, uncaught |-> FALSE]
    ELSE IF SetupThrows(SetupOrder[k]) THEN [active |-> done, uncaught |-> TRUE]
    ELSE RunInit(k + 1, IF SetupWires(SetupOrder[k])
                        THEN done \cup {SetupOrder[k]} ELSE done)

\* The script is evaluated, lines 223-227.
RunScript ==
    /\ bootPc = "script"
    /\ IF readyState = "loading"
       THEN /\ bootPc' = "waiting"
            /\ UNCHANGED <<active, uncaught>>
       ELSE /\ bootPc' = "done"
            /\ active' = RunInit(1, {}).active
            /\ uncaught' = RunInit(1, {}).uncaught
    /\ UNCHANGED <<present, readyState, hasIO>>
    /\ UNCHANGED notBoot

\* DOMContentLoaded fires and the registered init runs.
DomContentLoaded ==
    /\ bootPc = "waiting"
    /\ readyState' = "interactive"
    /\ bootPc' = "done"
    /\ active' = RunInit(1, {}).active
    /\ uncaught' = RunInit(1, {}).uncaught
    /\ UNCHANGED <<present, hasIO>>
    /\ UNCHANGED notBoot

\* The page finishes loading.
LoadComplete ==
    /\ bootPc = "done"
    /\ readyState = "interactive"
    /\ readyState' = "complete"
    /\ UNCHANGED <<present, bootPc, active, uncaught, hasIO>>
    /\ UNCHANGED notBoot

\* Any page, before the script runs.
BootInit ==
    /\ present \in SUBSET PageElements
    /\ readyState \in {"loading", "interactive", "complete"}
    /\ bootPc = "script"
    /\ active = {}
    /\ uncaught = FALSE

\* The page the controllers' own specifications assume: every element
\* present, init completed.
BootParked ==
    /\ present = PageElements
    /\ readyState = "complete"
    /\ bootPc = "done"
    /\ active = {"mobileMenu", "smoothScroll", "lazyLoading", "formValidation",
                 "headerScroll"}
    /\ uncaught = FALSE

BootNext ==
    \/ RunScript
    \/ DomContentLoaded
    \/ LoadComplete

(***************************************************************************)
(* Specifications, one per controller.                                     *)
(***************************************************************************)
InitHeader   == HeaderInit /\ MenuParked /\ LazyParked /\ FormParked /\ BootParked
InitMenu     == MenuInit /\ HeaderInit /\ LazyParked /\ FormParked /\ BootParked
InitLazy     == LazyInit /\ HeaderInit /\ MenuParked /\ FormParked /\ BootParked
InitForm     == FormInit /\ HeaderInit /\ MenuParked /\ LazyParked /\ BootParked
InitValidate == ValidateInit /\ HeaderInit /\ MenuParked /\ LazyParked /\ BootParked
\* Before the script runs nothing is observed; either kind of browser.
InitBoot     == /\ BootInit /\ HeaderInit /\ MenuParked /\ FormParked
                /\ hasIO \in BOOLEAN
                /\ imgParent = [i \in Images |-> "p1"]
                /\ srcParent = [s \in Sources |-> "p1"]
                /\ intersecting = [i \in Images |-> FALSE]
                /\ LazyMarkup
                /\ observed = << >>

SpecHeader   == InitHeader /\ [][HeaderNext]_vars
SpecMenu     == InitMenu /\ [][MenuNext]_vars
SpecLazy     == InitLazy /\ [][LazyNext]_vars
SpecForm     == InitForm /\ [][FormNext]_vars
SpecValidate == InitValidate /\ [][ValidateNext]_vars
SpecBoot     == InitBoot /\ [][BootNext]_vars

\* The browser runs every registered animation-frame callback at its next
\* frame, so a frame with something to run is not postponed forever.
SpecHeaderFair == SpecHeader /\ WF_vars(HeaderFrame)

(***************************************************************************)
(* Claims on the header-scroll controller.                                 *)
(***************************************************************************)
HeaderHidden   == "header--hidden" \in headerClasses
HeaderScrolled == "header--scrolled" \in headerClasses

\* The position read by the latest evaluation and the one recorded before it.
EvalCurrent  == evalLog[Len(evalLog)]
EvalPrevious == IF Len(evalLog) >= 2 THEN evalLog[Len(evalLog) - 1] ELSE 0

\* C6: after an evaluation at position c with recorded position l, both
\* classes are absent if c <= 0; otherwise hidden is present iff c > l and
\* c > 100, and scrolled is present iff c > 50; lastScroll is c.  Evaluations
\* at 0, 150, 200 end hidden and scrolled; 200 then 0 ends with neither.
C6_HeaderEvaluation ==
    /\ Len(evalLog) >= 1 =>
          /\ lastScroll = EvalCurrent
          /\ IF EvalCurrent <= 0
             THEN ~HeaderHidden /\ ~HeaderScrolled
             ELSE /\ HeaderHidden <=> (EvalCurrent > EvalPrevious /\ EvalCurrent > 100)
                  /\ HeaderScrolled <=> EvalCurrent > 50
    /\ evalLog = <<0, 150, 200>> => HeaderHidden /\ HeaderScrolled
    /\ (Len(evalLog) >= 2 /\ LastN(evalLog, 2) = <<200, 0>>) =>
          ~HeaderHidden /\ ~HeaderScrolled

C6_Witness ==
    /\ evalLog = <<0, 150, 200>>
    /\ HeaderHidden /\ HeaderScrolled
    /\ lastScroll = 200

\* C7: at most one header callback is pending, ticking holds exactly when
\* one is pending, and a frame preceded by one or more scroll events runs
\* exactly one evaluation.
C7_ScrollThrottle ==
    /\ rafHeader <= 1
    /\ ticking <=> rafHeader = 1
    /\ frameScrolls >= 1 => frameEvals = 1

C7_Witness ==
    /\ frameScrolls >= 2
    /\ frameEvals = 1
    /\ ~ticking /\ rafHeader = 0

\* C17: from a header with neither class, in every reachable state the
\* header has header--hidden only together with header--scrolled.
C17_HiddenImpliesScrolled == HeaderHidden => HeaderScrolled

C17_Witness ==
    /\ HeaderHidden /\ HeaderScrolled
    /\ EvalCurrent = 101
    /\ EvalPrevious = 100

\* C18: while the position differs from the recorded one a callback is
\* pending; under fair frames every pending evaluation is eventually run
\* on the position current at that frame, leaving ticking false, lastScroll
\* equal to the scroll position and the classes those of that position.
C18_NoScrollLost ==
    /\ [](scrollY # lastScroll => ticking /\ rafHeader = 1)
    /\ ticking ~> (/\ ~ticking
                   /\ lastScroll = scrollY
                   /\ HeaderScrolled <=> scrollY > 50
                   /\ scrollY <= 0 => ~HeaderHidden /\ ~HeaderScrolled)

C18_Witness ==
    /\ frameScrolls = 3
    /\ ~ticking
    /\ scrollY = 150 /\ lastScroll = 150
    /\ HeaderScrolled

(***************************************************************************)
(* Claims on the mobile menu controller.                                   *)
(***************************************************************************)
MenuShowsOpen ==
    \/ isMenuOpen
    \/ "nav__list--active" \in navListClasses
    \/ "nav__mobile-btn--active" \in btnClasses
    \/ bodyOverflow # ""

\* C3: below 768 a click on a nav link while the menu is open closes it:
\* isMenuOpen is false, both active classes are gone and the body overflow
\* lock is cleared.
C3_NarrowLinkCloses ==
    (lastClick.kind = "navlink" /\ lastClick.width < 768
        /\ lastClick.before.isMenuOpen)
    => /\ ~isMenuOpen
       /\ "nav__list--active" \notin navListClasses
       /\ "nav__mobile-btn--active" \notin btnClasses
       /\ bodyOverflow = ""

C3_Witness ==
    /\ lastClick.kind = "navlink" /\ lastClick.width = 767
    /\ lastClick.before.isMenuOpen
    /\ lastClick.before.overflow = "hidden"
    /\ ~MenuShowsOpen

\* C4: at 768 and above a click on a nav link leaves isMenuOpen, both class
\* lists and the body overflow as they were, menu open or closed.
C4_WideLinkLeavesMenu ==
    (lastClick.kind = "navlink" /\ lastClick.width >= 768)
    => MenuState = lastClick.before

C4_Witness ==
    /\ lastClick.kind = "navlink" /\ lastClick.width = 768
    /\ lastClick.before.isMenuOpen
    /\ isMenuOpen /\ bodyOverflow = "hidden"
    /\ "nav__list--active" \in navListClasses

\* C12: from a page with no active classes, after any clicks at any widths,
\* isMenuOpen is true iff the nav list has nav__list--active iff the button
\* has nav__mobile-btn--active iff the body overflow is "hidden".
C12_MenuMirrored ==
    /\ isMenuOpen <=> "nav__list--active" \in navListClasses
    /\ isMenuOpen <=> "nav__mobile-btn--active" \in btnClasses
    /\ isMenuOpen <=> bodyOverflow = "hidden"

C12_Witness ==
    /\ lastClick.kind = "btn"
    /\ lastClick.before.isMenuOpen
    /\ lastClick.before.overflow = "hidden"
    /\ ~isMenuOpen /\ bodyOverflow = ""
    /\ navListClasses = {"nav__list"} /\ btnClasses = {"nav__mobile-btn"}

(***************************************************************************)
(* Claims on smooth scrolling.                                             *)
(***************************************************************************)
\* Whether document.querySelector(href) has an element to return.
TargetExists(href) == Len(href) = 2 /\ href[2] \in TargetIds

\* C15: a click on a .nav__link or .hero__cta whose href starts with "#"
\* always cancels the default; it requests a scroll iff an element matches
\* the href, then to the target's offsetTop minus the header height measured
\* at setup; with no target it requests no scroll and raises no error.  A
\* click on a link with any other href cancels nothing.
C15_SmoothScroll ==
    lastClick.kind \in {"navlink", "cta"} =>
        IF StartsWithHash(lastClick.href)
        THEN /\ lastClick.prevented
             /\ ~lastClick.threw
             /\ lastClick.scrolledTo # <<>> <=> TargetExists(lastClick.href)
             /\ TargetExists(lastClick.href) =>
                   /\ lastClick.scrolledTo =
                         <<TargetOffsetTop(lastClick.href[2]) - headerHeight>>
                   /\ scrollRequest = lastClick.scrolledTo
        ELSE /\ ~lastClick.prevented
             /\ lastClick.scrolledTo = <<>>

(***************************************************************************)
(* Claims on the lazy-image controller.                                    *)
(***************************************************************************)
EntriesOf(q, i) == Cardinality({k \in 1 .. Len(q) : q[k].target = i})

SiblingSources(i) == {s \in Sources : srcParent[s] = imgParent[i]}

\* The state an image is in once an intersecting entry for it was handled.
LoadedAndUnobserved(i) ==
    /\ ~IsObserved(observed, i)
    /\ "loaded" \in imgClasses[i]
    /\ imgDataSrc[i] = <<>>

\* Nothing of image i or of its sources is touched by the step, no handler
\* runs for it and no entry is queued for it.
ImageUntouched(i) ==
    /\ imgSrc'[i] = imgSrc[i]
    /\ imgDataSrc'[i] = imgDataSrc[i]
    /\ imgClasses'[i] = imgClasses[i]
    /\ \A s \in SiblingSources(i) :
          srcSrcset'[s] = srcSrcset[s] /\ srcDataSrcset'[s] = srcDataSrcset[s]
    /\ handlerRuns'[i] = handlerRuns[i]
    /\ ~IsObserved(observed', i)
    /\ EntriesOf(ioQueue', i) <= EntriesOf(ioQueue, i)

\* C5: each image is loaded at most once; once its first intersecting entry
\* is handled it is unobserved, has the 'loaded' class and no data-src, and
\* from then on, whatever the intersection changes, no handler runs for it
\* and its attributes and those of its sources are not modified.
C5_LoadedOnce ==
    /\ [](\A i \in Images :
            /\ loads[i] <= 1
            /\ handlerRuns[i] >= 1 => LoadedAndUnobserved(i))
    /\ [][\A i \in Images : handlerRuns[i] >= 1 => ImageUntouched(i)]_vars

\* A loaded image has left the viewport and come back, reported or not.
C5_Witness ==
    \E i \in Images :
        /\ loads[i] = 1
        /\ LoadedAndUnobserved(i)
        /\ imgSrc[i] = <<ImgUrl(i)>>
        /\ intersecting[i]
        /\ \E j \in Images \ {i} : IsObserved(observed, j) /\ observed[j] = "out"
        /\ ioQueue = <<>>

\* The images the queued entries report as intersecting.
IntersectingTargets(q) ==
    {q[k].target : k \in {n \in 1 .. Len(q) : q[n].isIntersecting}}

\* C20: an image has 'loaded' only if an intersecting entry for it was
\* handled, and then it has no data-src and is not observed; a delivery
\* leaves every image without an intersecting entry in it observed as before
\* with its src, data-src and classes, and leaves the sources of every
\* parent none of whose images has an intersecting entry in it unchanged.
C20_NonIntersectingNoOp ==
    /\ [](\A i \in Images :
            "loaded" \in imgClasses[i] =>
                /\ handlerRuns[i] >= 1
                /\ imgDataSrc[i] = <<>>
                /\ ~IsObserved(observed, i))
    /\ [][(ioQueue # <<>> /\ ioQueue' = <<>>) =>
            /\ \A i \in Images \ IntersectingTargets(ioQueue) :
                  /\ IsObserved(observed', i) <=> IsObserved(observed, i)
                  /\ imgSrc'[i] = imgSrc[i]
                  /\ imgDataSrc'[i] = imgDataSrc[i]
                  /\ imgClasses'[i] = imgClasses[i]
            /\ \A s \in Sources :
                  (\A i \in IntersectingTargets(ioQueue) :
                       imgParent[i] # srcParent[s])
                  => /\ srcSrcset'[s] = srcSrcset[s]
                     /\ srcDataSrcset'[s] = srcDataSrcset[s]]_vars

\* A not-intersecting entry for an image was delivered while another image,
\* under the same parent, is already loaded.
C20_Witness ==
    \E i \in Images :
        /\ IsObserved(observed, i) /\ observed[i] = "out"
        /\ ioQueue = <<>>
        /\ handlerRuns[i] = 0
        /\ imgSrc[i] = MarkupImgSrc[i]
        /\ imgDataSrc[i] = MarkupImgDataSrc[i]
        /\ "loaded" \notin imgClasses[i]
        /\ \E j \in Images \ {i} :
              /\ "loaded" \in imgClasses[j]
              /\ imgParent[j] # imgParent[i]
        /\ \A s \in SiblingSources(i) : srcDataSrcset[s] = MarkupSrcDataSrcset[s]

\* C10: without IntersectionObserver no image is observed and every image
\* and source keeps its markup: data-src, data-srcset, src, srcset, classes.
C10_NoObserverNoOp ==
    ~hasIO =>
        /\ DOMAIN observed = {}
        /\ ioQueue = <<>>
        /\ imgSrc = MarkupImgSrc
        /\ imgDataSrc = MarkupImgDataSrc
        /\ imgClasses = MarkupImgClasses
        /\ srcSrcset = MarkupSrcSrcset
        /\ srcDataSrcset = MarkupSrcDataSrcset

C10_Witness ==
    /\ ~hasIO
    /\ \A i \in Images : intersecting[i]
    /\ imgDataSrc = MarkupImgDataSrc
    /\ DOMAIN observed = {}

(***************************************************************************)
(* Claims on the form-validation controller.                               *)
(***************************************************************************)
\* The value without its leading and trailing whitespace, by position.
InkPositions(v) == {k \in 1 .. Len(v) : v[k] \notin {" ", "\t", "\n"}}
TrimmedOf(v) ==
    IF InkPositions(v) = {} THEN <<>>
    ELSE SubSeq(v, CHOOSE k \in InkPositions(v) : \A m \in InkPositions(v) : k <= m,
                   CHOOSE k \in InkPositions(v) : \A m \in InkPositions(v) : k >= m)

\* The mapping passed to submitForm holds the value of every field.
HoldsEveryValue(data, values) ==
    \A f \in Fields :
        FieldName(f) \in DOMAIN data /\ data[FieldName(f)] = values[f]

\* C1: a submit whose fields are not all valid in the frame callback never
\* calls submitForm; one whose fields are all valid calls it exactly once,
\* with a mapping that contains every field's value.
C1_SubmitAllOrNothing ==
    \A n \in 1 .. Len(frameLog) :
        LET e == frameLog[n]
        IN  /\ ~e.ok => e.calls = <<>>
            /\ e.ok => /\ Len(e.calls) = 1
                       /\ HoldsEveryValue(e.calls[1], e.read)

\* C2: the values validateField checked in the callback and the values in
\* the mapping passed to submitForm are the same, for every interleaving of
\* input events between the submit event and its frame.
C2_SubmitsWhatItValidated ==
    \A n \in 1 .. Len(frameLog) :
        \A k \in 1 .. Len(frameLog[n].calls) :
            \A f \in Fields :
                frameLog[n].calls[k][FieldName(f)] = frameLog[n].read[f]

\* The configured minimum of a field: data-min-length, 0 when absent.
ConfiguredMinimum(f) ==
    IF fieldMinLength[f] = <<>> THEN 0 ELSE fieldMinLength[f][1]

\* The message rendered by the latest call: the last span of the parent.
RenderedMessage(f) ==
    LET spans == errorMessages[fieldParent[f]]
    IN  IF spans = <<>> THEN <<>> ELSE spans[Len(spans)]

\* C8: a field that is not of type email is valid iff its trimmed value is
\* at least as long as its data-min-length (0 when absent); when invalid the
\* rendered message is 'Minimum N characters required'.  With minimum 5,
\* 'abcd' is invalid and 'abcde' is valid.
C8_MinLengthRule ==
    \A f \in Fields :
        (callResult.field = f /\ fieldType[f] # "email") =>
            /\ callResult.isValid <=>
                  Len(TrimmedOf(callResult.value)) >= ConfiguredMinimum(f)
            /\ ~callResult.isValid =>
                  /\ RenderedMessage(f) =
                        <<"Minimum ", ConfiguredMinimum(f), " characters required">>
                  /\ "error" \in fieldClasses[f]
            /\ (fieldMinLength[f] = <<5>> /\ callResult.value = Str_abcd) =>
                  ~callResult.isValid
            /\ (fieldMinLength[f] = <<5>> /\ callResult.value = Str_abcde) =>
                  callResult.isValid

C8_Witness ==
    /\ callResult.field = 1 /\ fieldType[1] = "text"
    /\ fieldMinLength[1] = <<5>> /\ callResult.value = Str_abcd
    /\ ~callResult.isValid
    /\ errorMessages["row1"] = <<(<<"Minimum ", 5, " characters required">>)>>

\* local@domain.tld: one '@' after a non-empty run, then a non-empty run, a
\* dot and a non-empty run, with no whitespace and no other '@' anywhere.
EmailShaped(v) ==
    \E k \in 2 .. Len(v) : \E j \in k + 2 .. Len(v) - 1 :
        /\ v[k] = "@"
        /\ v[j] = "."
        /\ \A m \in (1 .. Len(v)) \ {k} : v[m] \notin {" ", "\t", "\n", "@"}

\* C9: a field of type email is valid iff its trimmed value is shaped
\* local@domain.tld, whatever its data-min-length; when invalid the message
\* is 'Please enter a valid email'.  'a@b.co' is valid, 'not-an-email' not.
C9_EmailRule ==
    \A f \in Fields :
        (callResult.field = f /\ fieldType[f] = "email") =>
            /\ callResult.isValid <=> EmailShaped(TrimmedOf(callResult.value))
            /\ ~callResult.isValid =>
                  /\ RenderedMessage(f) = <<"Please enter a valid email">>
                  /\ "error" \in fieldClasses[f]
            /\ callResult.value = Str_a_b_co => callResult.isValid
            /\ callResult.value = Str_not_an_email => ~callResult.isValid

C9_Witness ==
    /\ callResult.field = 1 /\ fieldType[1] = "email"
    /\ fieldMinLength[1] = <<5>>
    /\ callResult.value = <<"a", "@", "a", ".", "a">>
    /\ callResult.isValid
    /\ errorMessages["row1"] = <<>>

\* Whether the field's current value satisfies the rule of its type.
ValueIsValid(f) ==
    IF fieldType[f] = "email"
    THEN EmailShaped(TrimmedOf(fieldValue[f]))
    ELSE Len(TrimmedOf(fieldValue[f])) >= ConfiguredMinimum(f)

\* The error text of the field's rule.
OwnErrorText(f) ==
    IF fieldType[f] = "email"
    THEN <<"Please enter a valid email">>
    ELSE <<"Minimum ", ConfiguredMinimum(f), " characters required">>

\* The texts of the error-message spans under the field's parent.
ShownMessages(f) ==
    {errorMessages[fieldParent[f]][k] :
        k \in 1 .. Len(errorMessages[fieldParent[f]])}

\* C13: after the frame of a submit every field has been validated by each
\* callback, every invalid field has the 'error' class and its own error
\* text shown, and every valid field has neither, in one row or in two.
C13_AllErrorsShown ==
    frameLog # <<>> =>
        /\ \A n \in 1 .. Len(frameLog) : \A f \in Fields :
              \E k \in 1 .. Len(frameLog[n].trace) :
                  frameLog[n].trace[k] = <<"validateField", f>>
        /\ \A f \in Fields :
              IF ValueIsValid(f)
              THEN "error" \notin fieldClasses[f]
                   /\ OwnErrorText(f) \notin ShownMessages(f)
              ELSE "error" \in fieldClasses[f]
                   /\ OwnErrorText(f) \in ShownMessages(f)

\* C14: while input events follow one another by less than 300ms nothing
\* is validated and one timer is pending, for the last target; when 300ms
\* have passed since the last event, validateField has run exactly once, at
\* 300ms, on that target if it is an input or textarea, and not at all
\* otherwise.
C14_TrailingDebounce ==
    IF burst.elapsed < DebounceDelay
    THEN /\ burst.live = <<>>
         /\ Len(timer) = 1
         /\ timer[1].target = burst.last
         /\ timer[1].remaining = DebounceDelay - burst.elapsed
    ELSE /\ timer = <<>>
         /\ burst.live = IF burst.last \in Fields
                         THEN <<[field |-> burst.last, after |-> 300]>>
                         ELSE <<>>

C14_Witness ==
    /\ burst.prev = <<1>> /\ burst.last = 1
    /\ burst.elapsed = 300
    /\ burst.live = <<[field |-> 1, after |-> 300]>>
    /\ fieldValue[1] = Str_abcd
    /\ "error" \in fieldClasses[1]

\* C16: a pending submit callback belongs to an event whose default was
\* already cancelled; the submit handler itself validates nothing; the frame
\* runs one callback per pending submit, and each callback validates every
\* field, in order, before its one submitForm call, if it makes one.
C16_SubmitOrdering ==
    /\ [](\A k \in 1 .. Len(rafForm) : rafForm[k].prevented)
    /\ [](\A n \in 1 .. Len(frameLog) :
            LET t == frameLog[n].trace
            IN  /\ frameLog[n].prevented
                /\ Len(t) = Cardinality(Fields) + Len(frameLog[n].calls)
                /\ Len(frameLog[n].calls) <= 1
                /\ \A f \in Fields : t[f] = <<"validateField", f>>
                /\ \A k \in Cardinality(Fields) + 1 .. Len(t) :
                      t[k] = <<"submitForm", 0>>)
    /\ [][/\ Len(rafForm') > Len(rafForm) =>
                /\ UNCHANGED <<fieldClasses, errorMessages>>
                /\ frameLog' = <<>>
          /\ (rafForm # <<>> /\ rafForm' = <<>>) =>
                Len(frameLog') = Len(rafForm)]_vars

C16_Witness ==
    /\ Len(frameLog) = 2
    /\ frameLog[1].trace = <<(<<"validateField", 1>>), <<"validateField", 2>>,
                             <<"submitForm", 0>> >>
    /\ frameLog[2].prevented
    /\ rafForm = <<>>

\* The two fields had input events less than 300ms apart, the second being
\* the last event, and the delay has passed since.
BurstOver(a, b) ==
    /\ a # b
    /\ burst.prev = <<a>>
    /\ burst.last = b
    /\ burst.elapsed >= DebounceDelay

\* C19 as stated: once the delay has elapsed both fields have been
\* re-validated by the live-validation listener.
C19_BothRevalidated ==
    \A a \in Fields, b \in Fields :
        BurstOver(a, b) =>
            {a, b} \subseteq {burst.live[k].field : k \in 1 .. Len(burst.live)}

\* C19, amended: once the delay has elapsed since the second field's event,
\* only the second field has been re-validated by the live-validation
\* listener; the first field's pending validation was superseded.
C19_OnlyLastRevalidated ==
    \A a \in Fields, b \in Fields :
        BurstOver(a, b) =>
            burst.live = <<[field |-> b, after |-> DebounceDelay]>>

C19_Witness ==
    /\ BurstOver(1, 2)
    /\ burst.live = <<[field |-> 2, after |-> 300]>>
    /\ fieldValue[1] = Str_abcd
    /\ "error" \notin fieldClasses[1]
    /\ "error" \in fieldClasses[2]

(***************************************************************************)
(* Claims on the bootstrap.                                                *)
(***************************************************************************)
\* The cached elements a controller needs to activate.
NeededElements(name) ==
    IF name = "mobileMenu" THEN {"nav"}
    ELSE IF name \in {"smoothScroll", "headerScroll"} THEN {"header"}
    ELSE IF name = "formValidation" THEN {"form"}
    ELSE {}

\* C11: whichever of .header, .nav, .nav__list, .contact__form are missing,
\* init raises no error, and every controller that needs none of the missing
\* elements (and, for lazy loading, has its capability) is set up.
C11_SilentBootstrap ==
    bootPc = "done" =>
        /\ ~uncaught
        /\ \A k \in 1 .. Len(SetupOrder) :
              (NeededElements(SetupOrder[k]) \subseteq present
                 /\ (SetupOrder[k] = "lazyLoading" => hasIO))
              => SetupOrder[k] \in active

=============================================================================
